---- MODULE Spec2Model ----
(***************************************************************************)
(* Model of consensus.py (spectrassembler): window-wise consensus of one   *)
(* connected component (run_spoa_in_cc, fill_and_run_spoa, run_spoa) and   *)
(* the stitching of the window consensuses (merge_windows_in_cc,           *)
(* add_next_window, run_spoa_and_consensus, get_consensus).                *)
(*                                                                         *)
(* Strings are sequences of one-character strings.  A file is the sequence *)
(* of its lines, each line with its terminating "\n"; a file that does not *)
(* exist is outside the DOMAIN of the map that holds it.  The alignment    *)
(* engine (spoa) is an external program: its output is a nondeterministic  *)
(* choice among the outcomes listed in spoa_outcomes / spoa_pair_outcomes. *)
(***************************************************************************)
EXTENDS Integers, Sequences, FiniteSets, TLC

VARIABLES
    opts,          \* the options dictionary (W_LEN, W_OVL_LEN, N_PROC, TRIM_MARGIN, MERGE_MARGIN)
    record_list,   \* reads, [id, seq]; rewritten in place by strand normalization
    cc,            \* indices (into record_list) of the reads of the component
    strand_list,   \* strand of cc[i]: TRUE forward, FALSE reverse
    bpos_in,       \* begin coordinates as passed by the caller
    epos_in,       \* end coordinates as passed by the caller
    bpos_list,     \* run_spoa_in_cc's local bpos_list (after the offset)
    epos_list,     \* run_spoa_in_cc's local epos_list (after the offset)
    n_windows,     \* run_spoa_in_cc's local n_windows
    pc,            \* position of the main process
    exc,           \* exception that ended the main process, "" when none
                   \* pc: "start", "map", "returned", "merge", "done", "raised"
    task,          \* pool task of each window: "pending", "spoa", "done"
    ret,           \* value returned by each finished task
    in_file,       \* poa_in_cc_<cc>_win_<w>.<fmt>: sequence of written records
    cnsns,         \* poa_in_cc_<cc>_win_<w>.<fmt>.cnsns: lines
    exit_status,   \* what subprocess.call returned for the window's engine run
    n_win,         \* merge_windows_in_cc's local n_win
    whole_cons,    \* merge_windows_in_cc's local whole_cons
    k,             \* number of add_next_window calls made so far
    visited,       \* the w_idx of every add_next_window call, in order
    spoa_runs,     \* number of engine runs started by run_spoa_and_consensus
    consensus_file, \* consensus_cc_<cc>.fasta: <<>> when absent, else <<sequence>>
    calls,         \* number of run_spoa_in_cc invocations for the component
    writers,       \* [file, task]: the pool task of window `task` opened `file` for writing
    seam           \* the last add_next_window call: <<>> if it returned early, else
                   \* [prev, cons0, cons1, next_win_seq, cons1b]

vars == <<opts, record_list, cc, strand_list, bpos_in, epos_in, bpos_list,
          epos_list, n_windows, pc, exc, task, ret, in_file, cnsns,
          exit_status, n_win, whole_cons, k, visited, spoa_runs,
          consensus_file, calls, writers, seam>>

-----------------------------------------------------------------------------
(* Bounds of the model *)

\* at most this many reads in the component
MaxReads == 2

\* N_PROC ranges over 1..MaxProc
MaxProc == 2

\* at most this many invocations of run_spoa_in_cc for the component
MaxCalls == 2

-----------------------------------------------------------------------------
(* Helpers *)

Max(a, b) == IF a >= b THEN a ELSE b

Min(a, b) == IF a <= b THEN a ELSE b

Range(s) == {s[i] : i \in DOMAIN s}

SeqMax(s) == CHOOSE x \in Range(s) : \A y \in Range(s) : y <= x

SeqMin(s) == CHOOSE x \in Range(s) : \A y \in Range(s) : x <= y

\* Python's s[b:e] (step 1): negative indices count from the end, both are clamped
PySlice(s, b, e) ==
    LET n  == Len(s)
        nb == IF b < 0 THEN Max(0, n + b) ELSE Min(b, n)
        ne == IF e < 0 THEN Max(0, n + e) ELSE Min(e, n)
    IN  IF nb < ne THEN SubSeq(s, nb + 1, ne) ELSE <<>>

\* Python's range(a, b) as a sequence
PyRange(a, b) == IF b > a THEN [i \in 1..(b - a) |-> a + i - 1] ELSE <<>>

\* a text line: the characters followed by the newline
Line(s) == Append(s, "\n")

-----------------------------------------------------------------------------
(* Inputs *)

Bases == <<"A", "C", "G", "T">>

\* sequence of read number r: a fixed aperiodic pattern of bases
ReadSeq(r, len) == [i \in 1..len |-> Bases[((i * i + r * i + r) % 4) + 1]]

\* candidate reads for a window length: [id, len, strand, bpos]; epos = bpos + len
ReadPool(W_LEN) ==
    IF W_LEN = 500
    THEN << [id |-> "b1", len |-> 500, strand |-> TRUE,  bpos |-> 100],
            [id |-> "b2", len |-> 500, strand |-> FALSE, bpos |-> 600] >>
    ELSE IF W_LEN = 30
    THEN << [id |-> "l1", len |-> 130, strand |-> FALSE, bpos |-> 3] >>
    ELSE << [id |-> "r1", len |-> 19, strand |-> TRUE,  bpos |-> -7],
            [id |-> "r2", len |-> 25, strand |-> TRUE,  bpos |-> 0],
            [id |-> "r3", len |-> 25, strand |-> FALSE, bpos |-> 4],
            [id |-> "r4", len |-> 40, strand |-> TRUE,  bpos |-> 1],
            [id |-> "r5", len |-> 25, strand |-> FALSE, bpos |-> 80] >>

\* components: increasing index sequences of at most MaxReads reads of the pool
Components(W_LEN) ==
    LET P == Len(ReadPool(W_LEN))
    IN  {s \in UNION {[1..n -> 1..P] : n \in 0..MaxReads} :
            \A i, j \in DOMAIN s : i < j => s[i] < s[j]}

\* (W_LEN, W_OVL_LEN) with 0 <= W_OVL_LEN < W_LEN
Configs == { <<24, 4>>, <<20, 0>>, <<500, 100>> }

\* the configuration under which the pool holds one long read
LongConfigs == { <<30, 10>> }

TrimMargins == {0, 2}

MergeMargins == {3}

InitFor(cfgs) ==
    \E cfg \in cfgs, np \in 1..MaxProc, tm \in TrimMargins, mm \in MergeMargins :
      \E comp \in Components(cfg[1]) :
        LET pool == ReadPool(cfg[1]) IN
        /\ opts = [W_LEN |-> cfg[1], W_OVL_LEN |-> cfg[2], N_PROC |-> np,
                   TRIM_MARGIN |-> tm, MERGE_MARGIN |-> mm]
        /\ record_list = [i \in 1..Len(pool) |->
                            [id |-> pool[i].id, seq |-> ReadSeq(i, pool[i].len)]]
        /\ cc = comp
        /\ strand_list = [i \in DOMAIN comp |-> pool[comp[i]].strand]
        /\ bpos_in = [i \in DOMAIN comp |-> pool[comp[i]].bpos]
        /\ epos_in = [i \in DOMAIN comp |-> pool[comp[i]].bpos + pool[comp[i]].len]
        /\ bpos_list = <<>>
        /\ epos_list = <<>>
        /\ n_windows = 0
        /\ pc = "start"
        /\ exc = ""
        /\ task = <<>>
        /\ ret = <<>>
        /\ in_file = <<>>
        /\ cnsns = <<>>
        /\ exit_status = <<>>
        /\ n_win = 0
        /\ whole_cons = <<>>
        /\ k = 0
        /\ visited = <<>>
        /\ spoa_runs = 0
        /\ consensus_file = <<>>
        /\ calls = 0
        /\ writers = {}
        /\ seam = <<>>

Init == InitFor(Configs)

\* a component of one read that spans seven windows
InitLong == InitFor(LongConfigs)

-----------------------------------------------------------------------------
(* Sequence records *)

Complement(b) ==
    CASE b = "A" -> "T"
      [] b = "T" -> "A"
      [] b = "C" -> "G"
      [] b = "G" -> "C"
      [] OTHER   -> b

\* SeqRecord.reverse_complement(): the new record does not inherit the id
reverse_complement(record) ==
    [id  |-> "<unknown id>",
     seq |-> [i \in 1..Len(record.seq) |->
                 Complement(record.seq[Len(record.seq) + 1 - i])]]

\* the loop of run_spoa_in_cc over enumerate(cc), applied to the first n entries
RECURSIVE NormalizeStrands(_, _)
NormalizeStrands(rl, n) ==
    IF n = 0 THEN rl
    ELSE LET prev     == NormalizeStrands(rl, n - 1)
             read_idx == cc[n]
             read_id  == prev[read_idx].id
         IN  IF ~strand_list[n]
             THEN [prev EXCEPT ![read_idx] =
                      [reverse_complement(prev[read_idx]) EXCEPT !.id = read_id]]
             ELSE prev

-----------------------------------------------------------------------------
(* Window partition: fill_and_run_spoa *)

MIN_FRAG_LEN == 20

w_b(w_idx) == (opts.W_LEN - opts.W_OVL_LEN) * w_idx

w_e(w_idx) == w_b(w_idx) + opts.W_LEN

\* np.flatnonzero((bpos_list < w_e)*(epos_list > w_b)), positions counted from 1
reads_in_w(w_idx) ==
    {idx \in DOMAIN cc : bpos_list[idx] < w_e(w_idx) /\ epos_list[idx] > w_b(w_idx)}

\* bb without the clamp at the start of the read
bb_unclamped(w_idx, idx) == w_b(w_idx) - bpos_list[idx]

bb(w_idx, idx) == Max(0, w_b(w_idx) - bpos_list[idx])

ee(w_idx, idx) == Min(Len(record_list[cc[idx]].seq), w_e(w_idx) - bpos_list[idx])

\* the length test with the boundary on the wrong side
too_small_le(w_idx, idx) == ee(w_idx, idx) - bb(w_idx, idx) <= MIN_FRAG_LEN

\* "Do not add too small pieces of sequence"
too_small(w_idx, idx) == ee(w_idx, idx) - bb(w_idx, idx) < MIN_FRAG_LEN

\* record[bb:ee]
piece(w_idx, idx) ==
    [id  |-> record_list[cc[idx]].id,
     seq |-> PySlice(record_list[cc[idx]].seq, bb(w_idx, idx), ee(w_idx, idx))]

\* the records written to the window's input file by the loop over reads_in_w,
\* restricted to the first n reads of the component
RECURSIVE fill_window(_, _)
fill_window(w_idx, n) ==
    IF n = 0 THEN <<>>
    ELSE IF n \in reads_in_w(w_idx) /\ ~too_small(w_idx, n)
         THEN Append(fill_window(w_idx, n - 1), piece(w_idx, n))
         ELSE fill_window(w_idx, n - 1)

-----------------------------------------------------------------------------
(* The alignment engine *)

\* what a run of spoa on a window's input can leave in the .cnsns file, and its
\* exit status: a trace and the consensus line; a blank consensus line; nothing
spoa_outcomes(records) ==
    { [out |-> << Line(<<"#">>), Line(records[1].seq) >>, status |-> 0],
      [out |-> << Line(<<>>) >>,                          status |-> 0],
      [out |-> <<>>,                                      status |-> 1] }

\* what a run of spoa on the seam (end of the current consensus, next window)
\* can leave in its output file
spoa_pair_outcomes(cons1, next_win_seq) ==
    { << Line(<<"#">>), Line(cons1 \o next_win_seq) >>,
      <<>> }

\* get_consensus on a file that exists (open() raises IOError otherwise)
get_consensus(lines, trim_margin) ==
    IF Len(lines) = 0 THEN <<>>
    ELSE LET consensus == PySlice(lines[Len(lines)], 0, -1)
         IN  PySlice(consensus, trim_margin, Len(consensus) - trim_margin)

-----------------------------------------------------------------------------
(* run_spoa_in_cc and the pool tasks *)

\* the return value of a function that ends with a bare return
None == "None"

\* the count with the overlap left out of the step
window_count_no_overlap(cons_len) == (cons_len \div opts.W_LEN) + 1

\* the count without the window that starts in the last step
window_count_floor(cons_len) == cons_len \div (opts.W_LEN - opts.W_OVL_LEN)

\* n_windows, from the span cons_len of the component
window_count(cons_len) == (cons_len \div (opts.W_LEN - opts.W_OVL_LEN)) + 1

\* run_spoa_in_cc up to the submission of the windows to the pool.  With an
\* empty component epos_list.max() raises ValueError (numpy: zero-size array).
\* With N_PROC = 1 no pool is created and the function returns at once.
run_spoa_in_cc ==
    /\ pc = "start"
    /\ IF cc = <<>>
       THEN /\ pc' = "raised"
            /\ exc' = "ValueError"
            /\ UNCHANGED <<record_list, bpos_list, epos_list, n_windows, task>>
       ELSE LET cons_len == SeqMax(epos_in) - SeqMin(bpos_in)
                b_min    == SeqMin(bpos_in)
                n        == window_count(cons_len)
            IN  /\ bpos_list' = [i \in DOMAIN bpos_in |-> bpos_in[i] - b_min]
                /\ epos_list' = [i \in DOMAIN epos_in |-> epos_in[i] - b_min]
                /\ n_windows' = n
                /\ record_list' = NormalizeStrands(record_list, Len(cc))
                /\ IF opts.N_PROC > 1
                   THEN /\ task' = [w \in 0..(n - 1) |-> "pending"]
                        /\ pc' = "map"
                   ELSE /\ task' = task
                        /\ pc' = "returned"
                /\ exc' = exc
    /\ calls' = calls + 1
    /\ UNCHANGED <<opts, cc, strand_list, bpos_in, epos_in, ret, in_file, cnsns,
                   exit_status, n_win, whole_cons, k, visited, spoa_runs,
                   consensus_file, writers, seam>>

\* index of the connected component
cc_idx == 0

\* the window's input file without its window number
in_fn_no_window(w_idx) ==
    [name |-> "poa_in", cc |-> cc_idx, win |-> 0, ext |-> "fasta"]

\* <ROOT_DIR>/cc_<cc_idx>/poa_in_cc_<cc_idx>_win_<w_idx>.<READS_FMT>
in_fn(w_idx) ==
    [name |-> "poa_in", cc |-> cc_idx, win |-> w_idx, ext |-> "fasta"]

\* "%s.cnsns" % filename
out_f(filename) == [filename EXCEPT !.ext = "fasta.cnsns"]

\* a pool of N_PROC processes runs at most N_PROC tasks at a time
WorkerFree == Cardinality({w \in DOMAIN task : task[w] = "spoa"}) < opts.N_PROC

\* a worker takes window w_idx: fill_and_run_spoa writes the input file, then
\* run_spoa returns if that file is empty and otherwise opens the .cnsns file
\* for writing and starts the engine
fill_and_run_spoa(w_idx) ==
    /\ pc = "map"
    /\ task[w_idx] = "pending"
    /\ WorkerFree
    /\ LET records == fill_window(w_idx, Len(cc))
       IN  /\ in_file' = (w_idx :> records) @@ in_file
           /\ IF records = <<>>
              THEN /\ task' = [task EXCEPT ![w_idx] = "done"]
                   /\ ret' = (w_idx :> None) @@ ret
                   /\ cnsns' = cnsns
                   /\ writers' = writers \cup {[file |-> in_fn(w_idx), task |-> w_idx]}
              ELSE /\ task' = [task EXCEPT ![w_idx] = "spoa"]
                   /\ ret' = ret
                   /\ cnsns' = (w_idx :> <<>>) @@ cnsns
                   /\ writers' = writers \cup
                         {[file |-> in_fn(w_idx), task |-> w_idx],
                          [file |-> out_f(in_fn(w_idx)), task |-> w_idx]}
    /\ UNCHANGED <<opts, record_list, cc, strand_list, bpos_in, epos_in,
                   bpos_list, epos_list, n_windows, pc, exc, exit_status, n_win,
                   whole_cons, k, visited, spoa_runs, consensus_file, calls, seam>>

\* the engine started for window w_idx exits: subprocess.call returns, its
\* value is dropped, the .cnsns file is closed and the task returns None
run_spoa(w_idx) ==
    /\ pc = "map"
    /\ task[w_idx] = "spoa"
    /\ \E o \in spoa_outcomes(in_file[w_idx]) :
          /\ cnsns' = [cnsns EXCEPT ![w_idx] = o.out]
          /\ exit_status' = (w_idx :> o.status) @@ exit_status
    /\ task' = [task EXCEPT ![w_idx] = "done"]
    /\ ret' = (w_idx :> None) @@ ret
    /\ UNCHANGED <<opts, record_list, cc, strand_list, bpos_in, epos_in,
                   bpos_list, epos_list, n_windows, pc, exc, in_file, n_win,
                   whole_cons, k, visited, spoa_runs, consensus_file, calls,
                   writers, seam>>

\* a map that hands the windows over and does not wait for them
PoolJoined_nowait == TRUE

\* mypool.map blocks until every task has returned; close() and join() follow
PoolJoined == \A w \in DOMAIN task : task[w] = "done"

pool_map_returns ==
    /\ pc = "map"
    /\ PoolJoined
    /\ pc' = "returned"
    /\ UNCHANGED <<opts, record_list, cc, strand_list, bpos_in, epos_in,
                   bpos_list, epos_list, n_windows, exc, task, ret, in_file,
                   cnsns, exit_status, n_win, whole_cons, k, visited, spoa_runs,
                   consensus_file, calls, writers, seam>>

-----------------------------------------------------------------------------
(* merge_windows_in_cc *)

\* the caller runs merge_windows_in_cc on a component after run_spoa_in_cc
\* has returned for it
StitchMayStart == pc = "returned"

\* ls <cc_dir>/poa_in_cc_<cc>_win_*.fast*.cnsns | wc -l: the number of .cnsns
\* files that exist (0 when ls finds none: the pipeline's status is that of wc,
\* so check_output does not raise and the except branch is not taken)
count_cnsns == Cardinality(DOMAIN cnsns)

\* the (w_idx, trim_margin) of the add_next_window calls made by the three loops
Schedule(n, TRIM_MARGIN) ==
    LET first == PyRange(0, 3)
        mid   == PyRange(3, n - 3)
        last  == PyRange(n - 3, n)
    IN  [i \in DOMAIN first |-> <<first[i], 0>>]
        \o [i \in DOMAIN mid |-> <<mid[i], TRIM_MARGIN>>]
        \o [i \in DOMAIN last |-> <<last[i], 0>>]

\* merge_windows_in_cc up to its first loop: count the windows, read window 0
merge_windows_in_cc ==
    /\ StitchMayStart
    /\ n_win' = count_cnsns
    /\ IF 0 \in DOMAIN cnsns
       THEN /\ whole_cons' = get_consensus(cnsns[0], opts.TRIM_MARGIN)
            /\ pc' = "merge"
            /\ exc' = exc
       ELSE /\ whole_cons' = whole_cons
            /\ pc' = "raised"
            /\ exc' = "IOError"
    /\ UNCHANGED <<opts, record_list, cc, strand_list, bpos_in, epos_in,
                   bpos_list, epos_list, n_windows, task, ret, in_file, cnsns,
                   exit_status, k, visited, spoa_runs, consensus_file, calls,
                   writers, seam>>

\* kept_len without the clamp at 0
kept_len_unclamped(whole_cons_len, next_win_len) ==
    whole_cons_len - next_win_len - opts.MERGE_MARGIN

kept_len(whole_cons_len, next_win_len) ==
    Max(0, whole_cons_len - next_win_len - opts.MERGE_MARGIN)

\* the kept part, one character short
cons0_short(whole, kl) == PySlice(whole, 0, kl - 1)

\* whole_cons[:kept_len]
cons0(whole, kl) == PySlice(whole, 0, kl)

\* whole_cons[kept_len:]
cons1(whole, kl) == PySlice(whole, kl, Len(whole))

\* run_spoa_and_consensus once the engine has left `out` in out_fn: the input
\* file always holds the two headers, so the early return is not taken
run_spoa_and_consensus(out) == get_consensus(out, 0)

\* the return value with the kept part forgotten
stitched_tail_only(c0, cons1b) == cons1b

\* return cons0 + cons1b
stitched(c0, cons1b) == c0 \o cons1b

\* the loops of merge_windows_in_cc have made all their calls
LoopsDone_early == k >= 3

LoopsDone == k = Len(Schedule(n_win, opts.TRIM_MARGIN))

\* the next add_next_window call of the loops, run_spoa_and_consensus included
add_next_window ==
    /\ pc = "merge"
    /\ k < Len(Schedule(n_win, opts.TRIM_MARGIN))
    /\ LET call        == Schedule(n_win, opts.TRIM_MARGIN)[k + 1]
           w_idx       == call[1]
           trim_margin == call[2]
       IN  /\ visited' = Append(visited, w_idx)
           /\ IF w_idx \notin DOMAIN cnsns \/ Len(cnsns[w_idx]) = 0
              THEN /\ whole_cons' = whole_cons
                   /\ spoa_runs' = spoa_runs
                   /\ seam' = <<>>
              ELSE LET next_win_seq == get_consensus(cnsns[w_idx], trim_margin)
                       kl           == kept_len(Len(whole_cons), Len(next_win_seq))
                       c0           == cons0(whole_cons, kl)
                       c1           == cons1(whole_cons, kl)
                   IN  /\ spoa_runs' = spoa_runs + 1
                       /\ \E out \in spoa_pair_outcomes(c1, next_win_seq) :
                             LET cons1b == run_spoa_and_consensus(out)
                             IN  /\ whole_cons' = stitched(c0, cons1b)
                                 /\ seam' = [prev |-> whole_cons, cons0 |-> c0,
                                             cons1 |-> c1,
                                             next_win_seq |-> next_win_seq,
                                             cons1b |-> cons1b]
    /\ k' = k + 1
    /\ UNCHANGED <<opts, record_list, cc, strand_list, bpos_in, epos_in,
                   bpos_list, epos_list, n_windows, pc, exc, task, ret, in_file,
                   cnsns, exit_status, n_win, consensus_file, calls, writers>>

\* after the last loop: the consensus is written to consensus_cc_<cc>.fasta
write_consensus ==
    /\ pc = "merge"
    /\ LoopsDone
    /\ consensus_file' = <<whole_cons>>
    /\ pc' = "done"
    /\ UNCHANGED <<opts, record_list, cc, strand_list, bpos_in, epos_in,
                   bpos_list, epos_list, n_windows, exc, task, ret, in_file,
                   cnsns, exit_status, n_win, whole_cons, k, visited, spoa_runs,
                   calls, writers, seam>>

Next ==
    \/ run_spoa_in_cc
    \/ \E w \in DOMAIN task : fill_and_run_spoa(w)
    \/ \E w \in DOMAIN task : run_spoa(w)
    \/ pool_map_returns
    \/ merge_windows_in_cc
    \/ add_next_window
    \/ write_consensus

Spec == Init /\ [][Next]_vars

\* the caller invokes run_spoa_in_cc once more for the same component, with the
\* same record_list object, coordinates and strands; the staging files stay
run_spoa_in_cc_again ==
    /\ pc = "returned"
    /\ calls < MaxCalls
    /\ pc' = "start"
    /\ task' = <<>>
    /\ ret' = <<>>
    /\ UNCHANGED <<opts, record_list, cc, strand_list, bpos_in, epos_in,
                   bpos_list, epos_list, n_windows, exc, in_file, cnsns,
                   exit_status, n_win, whole_cons, k, visited, spoa_runs,
                   consensus_file, calls, writers, seam>>

\* window production alone, invoked any number of times up to MaxCalls
NextProduce ==
    \/ run_spoa_in_cc
    \/ \E w \in DOMAIN task : fill_and_run_spoa(w)
    \/ \E w \in DOMAIN task : run_spoa(w)
    \/ pool_map_returns
    \/ run_spoa_in_cc_again

SpecProduce == Init /\ [][NextProduce]_vars

\* the pipeline on the long read
SpecLong == InitLong /\ [][Next]_vars

-----------------------------------------------------------------------------
(* Properties *)

\* the windows whose engine output holds a non-empty consensus
NonEmptyWindows ==
    {w \in DOMAIN cnsns : get_consensus(cnsns[w], 0) # <<>>}

\* C1: when the stitching pass has ended, every window of [0, n_windows) whose
\* consensus output is non-empty has had its transition applied.
C1_EveryWindowFolded ==
    pc = "done" =>
        \A w \in 0..(n_windows - 1) :
            w \in NonEmptyWindows => w \in Range(visited)

\* C2: when run_spoa_in_cc has returned, every window of [0, n_windows) has its
\* fragment set written, and an engine output recorded if that set is non-empty,
\* whatever N_PROC >= 1 is.
C2_AllWindowsProduced ==
    pc = "returned" =>
        \A w \in 0..(n_windows - 1) :
            fill_window(w, Len(cc)) # <<>> =>
                /\ w \in DOMAIN in_file
                /\ in_file[w] = fill_window(w, Len(cc))
                /\ w \in DOMAIN cnsns

\* C3: whatever window outputs are missing or empty (window 0 included),
\* merge_windows_in_cc does not abort.  Stated for the runs in which the pool
\* produced the windows (N_PROC > 1).
C3_MergeNeverAborts ==
    opts.N_PROC > 1 => ~(pc = "raised" /\ exc = "IOError")

\* the window and margin of the add_next_window call that comes next
NextCall == Schedule(n_win, opts.TRIM_MARGIN)[k + 1]

\* WindowConsensus of the next call is empty: no output file, an output file of
\* size 0, or an output whose (trimmed) consensus string is empty
NextWindowEmpty ==
    \/ NextCall[1] \notin DOMAIN cnsns
    \/ get_consensus(cnsns[NextCall[1]], NextCall[2]) = <<>>

\* C4: a transition on an empty WindowConsensus leaves RunningConsensus
\* unchanged and does not invoke the engine.
C4_NoOpOnEmpty ==
    [][ (pc = "merge" /\ k' = k + 1 /\ NextWindowEmpty)
            => (whole_cons' = whole_cons /\ spoa_runs' = spoa_runs) ]_vars

\* after the return of run_spoa_in_cc (the ValueError of an empty component
\* leaves it before any window is submitted)
AfterProduction ==
    \/ pc \in {"returned", "merge", "done"}
    \/ pc = "raised" /\ exc = "IOError"

\* C5: once run_spoa_in_cc has returned, every task submitted to the pool has
\* finished, and the outputs on disk are those of the windows with a non-empty
\* fragment set, whatever the order in which the workers ran.
C5_Barrier ==
    AfterProduction =>
        /\ \A w \in DOMAIN task : task[w] = "done" /\ w \in DOMAIN ret
        /\ DOMAIN cnsns = {w \in DOMAIN task : fill_window(w, Len(cc)) # <<>>}

C5_Witness ==
    /\ pc = "merge"
    /\ k >= 1
    /\ opts.N_PROC > 1
    /\ Cardinality(DOMAIN cnsns) >= 2

\* normalized coordinates of the i-th read of the component, and the window's
begin_r(i) == bpos_in[i] - SeqMin(bpos_in)

end_r(i) == epos_in[i] - SeqMin(bpos_in)

begin_w(w) == w * (opts.W_LEN - opts.W_OVL_LEN)

end_w(w) == begin_w(w) + opts.W_LEN

Selected(w, i) == begin_r(i) < end_w(w) /\ end_r(i) > begin_w(w)

ClipLo(w, i) == Max(0, begin_w(w) - begin_r(i))

ClipHi(w, i) == Min(Len(record_list[cc[i]].seq), end_w(w) - begin_r(i))

\* C6: every record of a window's input comes from a read r with
\* begin_r < end_w and end_r > begin_w and is the slice
\* [max(0, begin_w - begin_r), min(readLength_r, end_w - begin_r)) of it; every
\* such read whose slice is not discarded for its length has its record.
C6_SelectionAndSlice ==
    \A w \in DOMAIN in_file :
        /\ \A j \in DOMAIN in_file[w] :
              \E i \in DOMAIN cc :
                 /\ Selected(w, i)
                 /\ in_file[w][j] =
                      [id  |-> record_list[cc[i]].id,
                       seq |-> SubSeq(record_list[cc[i]].seq,
                                      ClipLo(w, i) + 1, ClipHi(w, i))]
        /\ \A i \in DOMAIN cc :
              (Selected(w, i) /\ ClipHi(w, i) - ClipLo(w, i) >= 20) =>
                 \E j \in DOMAIN in_file[w] :
                    in_file[w][j].id = record_list[cc[i]].id

\* a written fragment clipped on both sides, next to a read the window leaves out
C6_Witness ==
    \E w \in DOMAIN in_file :
        /\ \E i \in DOMAIN cc :
              /\ ClipLo(w, i) > 0
              /\ ClipHi(w, i) < Len(record_list[cc[i]].seq)
              /\ \E j \in DOMAIN in_file[w] :
                    in_file[w][j].id = record_list[cc[i]].id
        /\ \E i \in DOMAIN cc : ~Selected(w, i)

\* C7: a read has a fragment in a window's input iff its clipped length is at
\* least 20, and every fragment of an input has between 20 and W_LEN bases.
C7_FragmentLength ==
    \A w \in DOMAIN in_file :
        /\ \A j \in DOMAIN in_file[w] :
              /\ Len(in_file[w][j].seq) >= 20
              /\ Len(in_file[w][j].seq) <= opts.W_LEN
        /\ \A i \in DOMAIN cc :
              (\E j \in DOMAIN in_file[w] :
                  in_file[w][j].id = record_list[cc[i]].id)
              <=> ClipHi(w, i) - ClipLo(w, i) >= 20

\* a window whose input holds a fragment of 20 bases and from which a clipped
\* piece of 19 bases was left out
C7_Witness ==
    \E w \in DOMAIN in_file :
        /\ \E j \in DOMAIN in_file[w] : Len(in_file[w][j].seq) = 20
        /\ \E i \in DOMAIN cc :
              /\ ClipHi(w, i) - ClipLo(w, i) = 19
              /\ \A j \in DOMAIN in_file[w] :
                    in_file[w][j].id # record_list[cc[i]].id

Span == SeqMax(epos_in) - SeqMin(bpos_in)

\* C8: n_windows is floor(span / (W_LEN - W_OVL_LEN)) + 1, i.e. the n with
\* (n-1)*step <= span < n*step (3 for span 1000, W_LEN 500, W_OVL_LEN 100), and
\* the coordinates are shifted so that the least begin is 0 and none is negative.
C8_WindowCount ==
    (pc # "start" /\ exc # "ValueError") =>
        LET step == opts.W_LEN - opts.W_OVL_LEN
        IN  /\ n_windows >= 1
            /\ (n_windows - 1) * step <= Span
            /\ Span < n_windows * step
            /\ (Span = 1000 /\ opts.W_LEN = 500 /\ opts.W_OVL_LEN = 100)
                  => n_windows = 3
            /\ \A i \in DOMAIN cc :
                  /\ bpos_list[i] = bpos_in[i] - SeqMin(bpos_in)
                  /\ epos_list[i] = epos_in[i] - SeqMin(bpos_in)
                  /\ bpos_list[i] >= 0
                  /\ epos_list[i] >= 0
            /\ \E i \in DOMAIN cc : bpos_list[i] = 0

C8_Witness ==
    /\ pc = "map"
    /\ Span = 1000
    /\ opts.W_LEN = 500
    /\ opts.W_OVL_LEN = 100
    /\ n_windows = 3
    /\ SeqMin(bpos_in) # 0

\* C9: a component with no read does not make the pipeline raise; it ends
\* normally with the empty consensus.
C9_EmptyIsNotAnError ==
    cc = <<>> => pc # "raised"

\* C10: a window whose engine run failed (non-zero exit) ends its production
\* step with an outcome that differs from that of a window with no input.
C10_FailureDistinct ==
    \A w1, w2 \in DOMAIN ret :
        (/\ in_file[w1] = <<>>
         /\ w2 \in DOMAIN exit_status
         /\ exit_status[w2] # 0)
        => ret[w1] # ret[w2]

\* the sequence the read at position i of the component was given with
OriginalSeq(i) ==
    ReadSeq(cc[i], Len(record_list[cc[i]].seq))

RevComp(s) == [j \in 1..Len(s) |-> Complement(s[Len(s) + 1 - j])]

\* C11: whatever the number of run_spoa_in_cc invocations for the component,
\* once an invocation is past its strand loop every reverse-strand read is
\* stored as the reverse complement of its original sequence, every
\* forward-strand read is unchanged and every identifier is the original one.
C11_NormalizedOnce ==
    (calls >= 1 /\ pc \in {"map", "returned"}) =>
        \A i \in DOMAIN cc :
            /\ record_list[cc[i]].id = ReadPool(opts.W_LEN)[cc[i]].id
            /\ record_list[cc[i]].seq =
                  IF strand_list[i] THEN OriginalSeq(i)
                  ELSE RevComp(OriginalSeq(i))

\* C12: the consensus record is written once, by the step that follows the
\* last add_next_window call of the loops, with the value of whole_cons at that
\* point (the value returned); before that the file holds nothing.
C12_WrittenOnceAtEnd ==
    [][ /\ consensus_file' # consensus_file =>
             /\ consensus_file = <<>>
             /\ pc = "merge"
             /\ k = Len(Schedule(n_win, opts.TRIM_MARGIN))
             /\ consensus_file' = <<whole_cons>>
        /\ pc' = "done" => consensus_file' = <<whole_cons'>>
        /\ pc' # "done" => consensus_file' = <<>> ]_vars

C12_Witness ==
    /\ pc = "done"
    /\ consensus_file = <<whole_cons>>
    /\ whole_cons # <<>>
    /\ spoa_runs >= 2

\* C13: the indices of the windows stitched into whole_cons (add_next_window
\* calls on a window with a non-empty consensus) are strictly increasing, so no
\* window's consensus is used twice, whatever the window count.
C13_LeftToRight ==
    \A i, j \in DOMAIN visited :
        (i < j /\ visited[i] \in NonEmptyWindows /\ visited[j] \in NonEmptyWindows)
            => visited[i] < visited[j]

\* C14: whole_cons starts as window 0's consensus trimmed with margin 0, and
\* add_next_window is then called for windows 1 and up only.
C14_InitUntrimmed ==
    /\ (pc = "merge" /\ k = 0) => whole_cons = get_consensus(cnsns[0], 0)
    /\ \A i \in DOMAIN visited : visited[i] >= 1

\* C15: the margin given to add_next_window for a window w of [0, n_windows)
\* is 0 if w < 3 or w >= n_windows - 3, and TRIM_MARGIN otherwise.
C15_TrimSchedule ==
    (pc = "merge" /\ k < Len(Schedule(n_win, opts.TRIM_MARGIN))) =>
        (NextCall[1] \in 0..(n_windows - 1) =>
            NextCall[2] = IF NextCall[1] < 3 \/ NextCall[1] >= n_windows - 3
                          THEN 0 ELSE opts.TRIM_MARGIN)

\* max(0, len(RunningConsensus) - len(nextSeq) - mergeMargin)
KeptLen(running, nextSeq) ==
    IF Len(running) - Len(nextSeq) - opts.MERGE_MARGIN > 0
    THEN Len(running) - Len(nextSeq) - opts.MERGE_MARGIN
    ELSE 0

\* C16: in every stitching transition the kept part has length
\* max(0, len(Running) - len(nextSeq) - mergeMargin), between 0 and
\* len(Running); kept + tail is Running; the tail given to the engine has at
\* most len(nextSeq) + mergeMargin characters.
C16_KeptLenBounds ==
    seam # <<>> =>
        /\ Len(seam.cons0) = KeptLen(seam.prev, seam.next_win_seq)
        /\ Len(seam.cons0) >= 0
        /\ Len(seam.cons0) <= Len(seam.prev)
        /\ seam.cons0 \o seam.cons1 = seam.prev
        /\ Len(seam.cons1) <= Len(seam.next_win_seq) + opts.MERGE_MARGIN

\* a transition that keeps a non-empty part and hands over a tail of the
\* greatest length allowed
C16_Witness ==
    /\ seam # <<>>
    /\ Len(seam.cons0) > 0
    /\ Len(seam.cons1) = Len(seam.next_win_seq) + opts.MERGE_MARGIN

\* C17: an add_next_window call that does not return early yields kept +
\* stitchedTail: the first kept_len characters of whole_cons are unchanged, and
\* the result is the kept part followed by an engine result for the tail and
\* the consensus of the window of that call; an early return changes nothing.
C17_OnlyTailReplaced ==
    [][ (pc = "merge" /\ k' = k + 1) =>
          IF NextCall[1] \notin DOMAIN cnsns \/ Len(cnsns[NextCall[1]]) = 0
          THEN whole_cons' = whole_cons
          ELSE LET nextSeq == get_consensus(cnsns[NextCall[1]], NextCall[2])
                   kl      == KeptLen(whole_cons, nextSeq)
                   kept    == SubSeq(whole_cons, 1, kl)
                   tail    == SubSeq(whole_cons, kl + 1, Len(whole_cons))
               IN  /\ Len(whole_cons') >= kl
                   /\ SubSeq(whole_cons', 1, kl) = kept
                   /\ \E out \in spoa_pair_outcomes(tail, nextSeq) :
                         whole_cons' = kept \o get_consensus(out, 0) ]_vars

\* after a transition that kept a non-empty part and replaced the tail
C17_Witness ==
    /\ seam # <<>>
    /\ seam.cons0 # <<>>
    /\ seam.cons1b # <<>>
    /\ whole_cons # seam.prev
    /\ SubSeq(whole_cons, 1, Len(seam.cons0)) = seam.cons0

\* C18: every staging file opened for writing by a pool task is named by the
\* component index and the window index of that task, so no file has two
\* writers; the tasks are the window indices of [0, n_windows), one each.
C18_OneWriterPerFile ==
    /\ \A p, q \in writers : p.file = q.file => p.task = q.task
    /\ \A p \in writers : p.file.cc = 0 /\ p.file.win = p.task
    /\ pc = "map" => DOMAIN task = 0..(n_windows - 1)

\* two tasks are running their engine at the same time
C18_Witness ==
    /\ pc = "map"
    /\ \E w1, w2 \in DOMAIN task :
          w1 # w2 /\ task[w1] = "spoa" /\ task[w2] = "spoa"
    /\ Cardinality(writers) >= 4

\* C19: the n_windows windows cover every coordinate of [0, span], and every
\* read of the component is selected by at least one of them.
C19_Coverage ==
    (pc # "start" /\ exc # "ValueError") =>
        /\ \A x \in 0..Span :
              \E w \in 0..(n_windows - 1) : begin_w(w) <= x /\ x < end_w(w)
        /\ \A w \in 0..(n_windows - 2) : begin_w(w + 1) <= end_w(w)
        /\ \A i \in DOMAIN cc :
              \E w \in 0..(n_windows - 1) : Selected(w, i)

\* windows without overlap, the last of which is alone in covering the end of
\* the span and selects a read
C19_Witness ==
    /\ pc = "map"
    /\ opts.W_OVL_LEN = 0
    /\ n_windows >= 3
    /\ \E i \in DOMAIN cc : Selected(n_windows - 1, i)

\* C20: when the window's consensus is not empty and the engine's result for
\* the seam is empty, whole_cons becomes the kept part alone: the tail and the
\* window's sequence are dropped and a non-empty whole_cons gets shorter.
C20_EmptySeamKeepsKept ==
    (seam # <<>> /\ seam.next_win_seq # <<>> /\ seam.cons1b = <<>>) =>
        /\ whole_cons = SubSeq(seam.prev, 1, KeptLen(seam.prev, seam.next_win_seq))
        /\ seam.prev # <<>> => Len(whole_cons) < Len(seam.prev)

C20_Witness ==
    /\ seam # <<>>
    /\ seam.next_win_seq # <<>>
    /\ seam.cons1b = <<>>
    /\ whole_cons # <<>>
    /\ Len(whole_cons) < Len(seam.prev)

====
